---- MODULE Spec2Model ----
(***************************************************************************)
(* python-strava: the paginated BatchIterator (strava/helpers.py), the      *)
(* ensure_auth wrapper with the token refresh of the Django integration    *)
(* (strava/contrib/...), the request dispatcher with its hooks             *)
(* (strava/base.py) and the StravaAuth table with the operations that      *)
(* write to it.                                                            *)
(*                                                                         *)
(* An optional Python value (None or a value) is a sequence of length 0 or *)
(* 1: <<>> is None, <<v>> is v.                                            *)
(***************************************************************************)
EXTENDS Integers, Sequences, FiniteSets, TLC

\* ------------------------------------------------------------------ bounds
\* Largest data source served to a BatchIterator (items are 1..src).
MaxItems == 260
\* Pages are fetched only while page <= MaxPage (a limit < 0 never finishes).
MaxPage == 6
\* Calls of __iter__ on one BatchIterator.
MaxIters == 2
\* Latest time on the clock and latest expiry the service hands out.
MaxTime == 2
\* Calls of a wrapped operation on one session.
MaxCalls == 2
\* Hooks registered on each side of a request.
\* items the list endpoint may return for a page size that is not positive
MaxUnasked == 1
MaxHooks == 2
\* operations on the StravaAuth table
MaxOps == 3
\* athletes known to the service
MaxAthletes == 2
\* users of the project
MaxUsers == 2
\* calls of bind_user on one table
MaxBinds == 4
\* longest scope list given to authorization_url
MaxScope == 2
\* Dispatches made by one client.
MaxDispatches == 2

\* -------------------------------------------------------- program constants
\* BatchIterator.default_per_page
default_per_page == 100

None == <<>>
Some(v) == <<v>>

\* The limits a BatchIterator is built with: None, or one of these integers.
Limits == {0 - 1, 0, 1, 7, 100, 150, 250}

VARIABLES
    \* BatchIterator
    src,            \* number of items the remote list holds
    limit,          \* self.limit (optional)
    page,           \* self.page
    per_page,       \* self.per_page
    fetched_count,  \* self.fetched_count
    finished,       \* self._finished
    calls,          \* the calls of self.fetcher made so far: <<page, per_page>>
    lastLen,        \* len(result) of the last fetch
    buffer,         \* items of the page being yielded by "yield from"
    yielded,        \* items handed to the consumer so far
    ipc,            \* "new", "ready", "iter" (a generator is live), "done"
    iters,          \* number of __iter__ generators started
    built,          \* how the iterator was asked for, and what that gave
                    \* (optional)
    \* ensure_auth and the session it guards
    variant,        \* the module the wrapper and the session come from
    now,            \* timezone.now(), in seconds
    auth,           \* the auth instance in memory (StravaAuth fields)
    db,             \* the auth record as last saved
    saved,          \* update_fields of the last save (optional)
    lastRefresh,    \* the last successful refresh (optional): its response
                    \* and the refresh token stored before it
    wpc,            \* where the wrapper call stands
    startedExpired, \* whether expires_at was in the past when the call began
    events,         \* refreshes and invocations of the current call, in order
    outcome,        \* what the current call gave its caller (optional)
    ncalls,         \* wrapper calls made so far
    client,         \* the token of the client the session caches (optional)
    sent,           \* the requests dispatched in the current call: the
                    \* Authorization header, the session's token then, and
                    \* the token a refresh obtained (optional)
    opkind,         \* the wrapped operation of the current call: one that
                    \* returns one object or one that returns a BatchIterator
    \* RequestHandler (a StravaApiClientV3)
    client_token,       \* self.access_token ("" when there is none)
    before_subs,        \* self._before_request_subscribers
    after_subs,         \* self._after_request_subscribers
    last_response,      \* self.last_response: whether set, and the response
    rates,              \* the four rate attributes: whether set, and values
    response,           \* the response of the latest HTTP call (optional)
    trace,              \* hook calls and HTTP call of the latest dispatch
    dstage,             \* how far the latest dispatch went
    dres,               \* what the latest dispatch gave its caller (optional)
    ndispatch,          \* dispatches made so far
    service,            \* the answers the remote service may give
    \* the StravaAuth table and the operations that write to it
    store,              \* the module whose model and manager are in use
    records,            \* the rows of the table, in order of creation
    xop,                \* the latest operation on the table (optional)
    nops,               \* operations made so far
    \* one call of a function of the client that sends nothing
    call_in,            \* the function called and its arguments
    call_out,           \* what the call gave its caller (optional)
    \* two callers that refresh one session
    rshared,            \* whether the callers hold the same auth instance
    rinst,              \* the auth instances in memory
    rdb,                \* the row of the session as last saved
    rpc,                \* where each caller stands
    rresp               \* the answer each caller's token request got (optional)

iterVars == <<src, limit, page, per_page, fetched_count, finished, calls,
              lastLen, buffer, yielded, ipc, iters, built>>

authVars == <<variant, now, auth, db, saved, lastRefresh, wpc, startedExpired,
              events, outcome, ncalls, client, sent, opkind>>

dispVars == <<client_token, before_subs, after_subs, last_response, rates,
              response, trace, dstage, dres, ndispatch, service>>

storeVars == <<store, records, xop, nops>>

callVars == <<call_in, call_out>>

raceVars == <<rshared, rinst, rdb, rpc, rresp>>

vars == <<iterVars, authVars, dispVars, storeVars, callVars, raceVars>>

\* What an action of one component leaves alone.
notIterVars == <<authVars, dispVars, storeVars, callVars, raceVars>>
notAuthVars == <<iterVars, dispVars, storeVars, callVars, raceVars>>
notDispVars == <<iterVars, authVars, storeVars, callVars, raceVars>>
notStoreVars == <<iterVars, authVars, dispVars, callVars, raceVars>>
notCallVars == <<iterVars, authVars, dispVars, storeVars, raceVars>>
notRaceVars == <<iterVars, authVars, dispVars, storeVars, callVars>>

\* --------------------------------------------------------------- helpers
Min(a, b) == IF a < b THEN a ELSE b

RECURSIVE Range(_, _)
\* <<lo, lo+1, ..., hi>>
Range(lo, hi) == IF lo > hi THEN <<>> ELSE <<lo>> \o Range(lo + 1, hi)

\* Python truthiness of an optional integer: None and 0 are falsy.
Truthy(l) == l # None /\ l[1] # 0

\* ------------------------------------------------------------ BatchIterator
\* The remote list endpoint behind the fetcher: page p of size s of a list of
\* n items (offset (p-1)*s); nothing for a page size that is not positive.
fetcher(n, p, s) ==
    IF s <= 0 THEN <<>> ELSE Range((p - 1) * s + 1, Min(p * s, n))

\* What a call self.fetcher(page=p, per_page=s) may return: the page asked for;
\* for a page size that is not positive the endpoint's answer is its own
\* choice, nothing or up to MaxUnasked items.
fetcher_results(n, p, s) ==
    IF s > 0 THEN {fetcher(n, p, s)}
    ELSE {Range((p - 1) * MaxUnasked + 1, (p - 1) * MaxUnasked + k) : k \in 0..MaxUnasked}

\* __init__, lines 10-13: the initial per_page.
InitPerPage(l) ==
    IF Truthy(l) /\ l[1] < default_per_page THEN l[1] ELSE default_per_page

\* _fetch_page, lines 19-26: the page size requested.
PageSizeShort(l, fc, pp) == pp
PageSize(l, fc, pp) ==
    LET missing == l[1] - fc
        page_size == IF Truthy(l) /\ missing < pp THEN Some(missing) ELSE None
    IN  IF Truthy(page_size) THEN page_size[1] ELSE pp

\* _fetch_page, line 32: the termination test after a fetch.
IsFinishedNoLimit(len, pp, fc, l) == len < pp
IsFinished(len, pp, fc, l) == len < pp \/ (l # None /\ fc = l[1])

\* _fetch_page, line 29.
NextPage(p) == p + 1

\* _fetch_page as a whole, run with self.per_page = pp; res is its result.
fetch_page(pp, res) ==
    /\ res \in fetcher_results(src, page, PageSize(limit, fetched_count, pp))
    /\ calls' = Append(calls, <<page, PageSize(limit, fetched_count, pp)>>)
    /\ page' = NextPage(page)
    /\ fetched_count' = fetched_count + Len(res)
    /\ lastLen' = Len(res)
    /\ finished' = (finished \/ IsFinished(Len(res), pp, fetched_count + Len(res), limit))

\* BatchIterator(fetcher, limit): the constructor fetches one page and drops
\* its result (line 16).
Construct ==
    /\ ipc = "new"
    /\ per_page' = InitPerPage(limit)
    /\ \E res \in fetcher_results(src, page, PageSize(limit, fetched_count, InitPerPage(limit))) :
          fetch_page(InitPerPage(limit), res)
    /\ ipc' = "ready"
    /\ built' = Some([via |-> "direct", per_page |-> None, out |-> "ok"])
    /\ UNCHANGED <<src, limit, buffer, yielded, iters>>
    /\ UNCHANGED notIterVars

\* BatchIterator.__init__, line 4: the keyword parameters after fetcher.
init_keywords == {"limit"}

\* The page sizes a caller of a list operation chooses.
PerPages == {1, 50, 200}

\* client.get_activities / get_segment_efforts, lines 201 and 275:
\* BatchIterator(fetcher, per_page=per_page, limit=limit).  A keyword that
\* __init__ does not have makes the call raise TypeError before __init__ runs.
ClientListOp ==
    /\ ipc = "new"
    /\ \E pp \in PerPages :
          IF {"per_page", "limit"} \subseteq init_keywords
          THEN /\ per_page' = InitPerPage(limit)
               /\ \E res \in fetcher_results(src, page,
                                PageSize(limit, fetched_count, InitPerPage(limit))) :
                     fetch_page(InitPerPage(limit), res)
               /\ ipc' = "ready"
               /\ built' = Some([via |-> "client", per_page |-> Some(pp), out |-> "ok"])
          ELSE /\ ipc' = "raised"
               /\ built' = Some([via |-> "client", per_page |-> Some(pp),
                                 out |-> "TypeError"])
               /\ UNCHANGED <<page, per_page, fetched_count, finished, calls, lastLen>>
    /\ UNCHANGED <<src, limit, buffer, yielded, iters>>
    /\ UNCHANGED notIterVars

\* iter(batch_iterator): a new generator; nothing runs before the first next().
IterStart ==
    /\ ipc \in {"ready", "done"}
    /\ iters < MaxIters
    /\ ipc' = "iter"
    /\ iters' = iters + 1
    /\ UNCHANGED <<src, limit, page, per_page, fetched_count, finished, calls,
                   lastLen, buffer, yielded>>
    /\ UNCHANGED built
    /\ UNCHANGED notIterVars

\* __iter__, line 38: the loop condition.
LoopCondAlways == TRUE
LoopCond == ~finished

\* __iter__, lines 38-39: the loop takes another page.
FetchStep ==
    /\ ipc = "iter"
    /\ buffer = <<>>
    /\ LoopCond
    /\ page <= MaxPage
    /\ \E res \in fetcher_results(src, page, PageSize(limit, fetched_count, per_page)) :
          /\ fetch_page(per_page, res)
          /\ buffer' = res
    /\ UNCHANGED <<src, limit, per_page, yielded, ipc, iters>>
    /\ UNCHANGED built
    /\ UNCHANGED notIterVars

\* __iter__, line 39: "yield from" hands over the next item of the page.
YieldStep ==
    /\ ipc = "iter"
    /\ buffer # <<>>
    /\ yielded' = Append(yielded, Head(buffer))
    /\ buffer' = Tail(buffer)
    /\ UNCHANGED <<src, limit, page, per_page, fetched_count, finished, calls,
                   lastLen, ipc, iters>>
    /\ UNCHANGED built
    /\ UNCHANGED notIterVars

\* __iter__, line 38: the loop ends, the generator raises StopIteration.
StopStep ==
    /\ ipc = "iter"
    /\ buffer = <<>>
    /\ ~LoopCond
    /\ ipc' = "done"
    /\ UNCHANGED <<src, limit, page, per_page, fetched_count, finished, calls,
                   lastLen, buffer, yielded, iters>>
    /\ UNCHANGED built
    /\ UNCHANGED notIterVars

\* ------------------------------------------------------------- exceptions
\* strava/exceptions.py: each exception class and its base class.
Parent(cls) ==
    CASE cls = "Unauthenticated" -> "StravaError"
      [] cls = "PermissionDenied" -> "StravaError"
      [] cls = "NotFound" -> "StravaError"
      [] cls = "InvalidRequest" -> "StravaError"
      [] cls = "RequestLimitExceeded" -> "StravaError"
      [] cls = "PremiumAccountRequired" -> "StravaError"
      [] cls = "StravaError" -> "Exception"
      [] cls = "ImproperlyConfigured" -> "Exception"
      [] OTHER -> "Exception"

RECURSIVE IsInstance(_, _)
\* isinstance(an error of class cls, base)
IsInstance(cls, base) ==
    \/ cls = base
    \/ cls # "Exception" /\ IsInstance(Parent(cls), base)

\* The errors of the library, and the outcomes of one invocation of a wrapped
\* operation.
ErrorKinds == {"Unauthenticated", "PermissionDenied", "NotFound", "InvalidRequest",
               "RequestLimitExceeded", "PremiumAccountRequired", "StravaError",
               "ImproperlyConfigured"}
Outcomes == {"ok"} \cup ErrorKinds

\* ----------------------------------------------------------------- session
Variants == {"strava_django.manager", "django.manager", "django.models"}

\* A timezone-aware datetime: an instant in seconds and a UTC offset.
\* from_epoch_to_datetime(epoch)
from_epoch_to_datetime(epoch) == [secs |-> epoch, off |-> 0]
\* dt.astimezone(pytz.UTC): the same instant, at offset 0.
astimezone_utc(dt) == [secs |-> dt.secs, off |-> 0]
\* timezone.now()
timezone_now == [secs |-> now, off |-> 0]

\* What the token endpoint answers to a refresh: a new access token, a refresh
\* token (the one sent, or a rotated one) and an expiry (epoch seconds).
RefreshResponses ==
    [access_token : {"a1", "a2"}, refresh_token : {"r0", "r1"}, expires_at : 0..MaxTime]

\* The errors a token request raises when the service refuses it.
RefreshErrors == {"InvalidRequest", "Unauthenticated"}

Fields == {"access_token", "refresh_token", "expires_at"}

\* Model.save(update_fields=fields): the named fields of inst reach the record.
save(inst, fields) == [f \in Fields |-> IF f \in fields THEN inst[f] ELSE db[f]]

\* refresh_token, line 143 (strava_django), 127 (django.manager), 106
\* (django.models): the test that decides whether the refresh token is stored.
RefreshTokenChanged(inst, auth_data) == inst.refresh_token # inst.refresh_token

\* refresh_token, lines 138-146, on the answer auth_data of the token request.
refresh_token(auth_data) ==
    LET expires_at == from_epoch_to_datetime(auth_data.expires_at)
        inst1 == [auth EXCEPT !.expires_at = Some(expires_at),
                              !.access_token = auth_data.access_token]
        changed == RefreshTokenChanged(inst1, auth_data)
        fields_to_update == {"access_token", "expires_at"}
                                \cup (IF changed THEN {"refresh_token"} ELSE {})
        inst2 == IF changed
                 THEN [inst1 EXCEPT !.refresh_token = auth_data.refresh_token]
                 ELSE inst1
    IN  /\ auth' = inst2
        /\ saved' = Some(fields_to_update)
        /\ db' = save(inst2, fields_to_update)
        /\ lastRefresh' = Some([resp |-> auth_data, prev |-> auth.refresh_token])

\* The outcomes of the token request of refresh_token (lines 132-136): an
\* answer of the service or an error.  django.manager calls the client's
\* refresh_token on the class (line 116) with one argument too few: TypeError.
TokenRequest ==
    IF variant = "django.manager" THEN {[ok |-> FALSE, error |-> "TypeError"]}
    ELSE {[ok |-> TRUE, data |-> d] : d \in RefreshResponses}
            \cup {[ok |-> FALSE, error |-> e] : e \in RefreshErrors}

\* _get_authorization_header, lines 107-109.
get_authorization_header(token) ==
    IF token # "" THEN Some(<<"Bearer", token>>) ELSE None

\* The token of the client a request goes through.  strava_django builds a
\* client from the session's token for each request (get_client, lines
\* 127-129); django.models builds one on first use and keeps it (client,
\* lines 65-69).
ClientToken ==
    IF variant = "django.models" /\ client # None THEN client[1] ELSE auth.access_token

\* The client the session holds after a request through a client whose token
\* is now tok.
ClientAfter(tok) == IF variant = "django.models" THEN Some(tok) ELSE client

\* StravaApiClientV3.refresh_token, line 155: the client's token after the
\* token request was answered with data.
token_kept(old, data) == old
token_after_refresh(old, data) == data.access_token

\* django.manager calls the operations of the client on the class (lines 116,
\* 137): the call raises TypeError and no request is dispatched.
Dispatches == variant # "django.manager"

\* The requests sent once the client has dispatched one more, new being the
\* token the request obtained (optional).
SentAfter(new) ==
    IF Dispatches
    THEN Append(sent, [hdr |-> get_authorization_header(ClientToken),
                       cur |-> auth.access_token, new |-> new])
    ELSE sent

\* The wrapped operations: get_athlete_profile, get_activity, ... return what
\* one request gave; get_activities and get_segment_efforts return the
\* BatchIterator the client's list operation builds.
OpKinds == {"single", "list"}

\* The wrapped operation reaches a request of the client: the operations on
\* the class do not, and a list operation has to get past
\* BatchIterator(fetcher, per_page=per_page, limit=limit) first, which raises
\* TypeError for a keyword that __init__ does not have.
Fetches ==
    /\ Dispatches
    /\ opkind = "list" => {"per_page", "limit"} \subseteq init_keywords

\* The requests sent once a wrapped operation was invoked.
InvokeSent == IF Fetches THEN SentAfter(None) ELSE sent

\* The outcomes of one invocation of a wrapped operation.
OpOutcomes == IF Fetches THEN Outcomes ELSE {"TypeError"}

\* One run of manager.refresh_token() inside the wrapper: on success the call
\* goes on at `next`, on an error the error leaves the wrapper.
RefreshGoesOn(next) ==
    \E r \in TokenRequest :
        IF r.ok
        THEN /\ refresh_token(r.data)
             /\ events' = Append(events, [e |-> "refresh", out |-> "ok"])
             /\ wpc' = next
             /\ outcome' = outcome
             /\ sent' = SentAfter(Some(r.data.access_token))
             /\ client' = ClientAfter(token_after_refresh(ClientToken, r.data))
        ELSE /\ events' = Append(events, [e |-> "refresh", out |-> r.error])
             /\ wpc' = next
             /\ outcome' = outcome
             /\ sent' = SentAfter(None)
             /\ client' = ClientAfter(ClientToken)
             /\ UNCHANGED <<auth, db, saved, lastRefresh>>
Refresh(next) ==
    \E r \in TokenRequest :
        IF r.ok
        THEN /\ refresh_token(r.data)
             /\ events' = Append(events, [e |-> "refresh", out |-> "ok"])
             /\ wpc' = next
             /\ outcome' = outcome
             /\ sent' = SentAfter(Some(r.data.access_token))
             /\ client' = ClientAfter(token_after_refresh(ClientToken, r.data))
        ELSE /\ events' = Append(events, [e |-> "refresh", out |-> r.error])
             /\ wpc' = "raised"
             /\ outcome' = Some([kind |-> "raise", value |-> r.error])
             /\ sent' = SentAfter(None)
             /\ client' = ClientAfter(ClientToken)
             /\ UNCHANGED <<auth, db, saved, lastRefresh>>

\* -------------------------------------------------------------- ensure_auth
\* wrapper, line 22 (strava_django), 20 (django.manager, django.models): only
\* strava_django tests expires_at for None before calling astimezone on it.
ChecksNone == variant = "strava_django.manager"

\* wrapper, line 22: the expiry test.
IsExpiredNever(expires_at) == FALSE
IsExpired(expires_at) ==
    astimezone_utc(expires_at[1]).secs < astimezone_utc(timezone_now).secs

\* wrapper, lines 24/26: the except clause.
CatchesAny(err) == IsInstance(err, "Exception")
Catches(err) == IsInstance(err, "Unauthenticated")

\* A call of a wrapped operation begins: wrapper, lines 20-22.
CallWrapped ==
    /\ wpc \in {"idle", "returned", "raised"}
    /\ ncalls < MaxCalls
    /\ ncalls' = ncalls + 1
    /\ events' = <<>>
    /\ startedExpired' = (auth.expires_at # None /\ auth.expires_at[1].secs < now)
    /\ IF auth.expires_at = None
       THEN IF ChecksNone
            THEN wpc' = "invoke1" /\ outcome' = None
            ELSE /\ wpc' = "raised"
                 /\ outcome' = Some([kind |-> "raise", value |-> "AttributeError"])
       ELSE /\ wpc' = IF IsExpired(auth.expires_at) THEN "pre_refresh" ELSE "invoke1"
            /\ outcome' = None
    /\ sent' = <<>>
    /\ opkind' \in OpKinds
    /\ UNCHANGED <<variant, now, auth, db, saved, lastRefresh, client>>
    /\ UNCHANGED notAuthVars

\* wrapper, line 23: the refresh of an expired token.
PreRefresh ==
    /\ wpc = "pre_refresh"
    /\ Refresh("invoke1")
    /\ UNCHANGED <<variant, now, startedExpired, ncalls, opkind>>
    /\ UNCHANGED notAuthVars

\* wrapper, lines 24-26: the first invocation of func.
Invoke1 ==
    /\ wpc = "invoke1"
    /\ \E o \in OpOutcomes :
          /\ events' = Append(events, [e |-> "invoke", out |-> o])
          /\ IF o = "ok"
             THEN /\ wpc' = "returned"
                  /\ outcome' = Some([kind |-> "return", value |-> Len(events) + 1])
             ELSE IF Catches(o)
                  THEN wpc' = "retry_refresh" /\ outcome' = outcome
                  ELSE /\ wpc' = "raised"
                       /\ outcome' = Some([kind |-> "raise", value |-> o])
    /\ sent' = InvokeSent
    /\ client' = ClientAfter(ClientToken)
    /\ UNCHANGED <<variant, now, auth, db, saved, lastRefresh, startedExpired, ncalls, opkind>>
    /\ UNCHANGED notAuthVars

\* wrapper, line 27: the refresh after Unauthenticated.
RetryRefreshSkipped ==
    /\ wpc = "retry_refresh"
    /\ wpc' = "invoke2"
    /\ UNCHANGED <<variant, now, auth, db, saved, lastRefresh, startedExpired,
                   events, outcome, ncalls, client, sent, opkind>>
    /\ UNCHANGED notAuthVars
RetryRefresh ==
    /\ wpc = "retry_refresh"
    /\ Refresh("invoke2")
    /\ UNCHANGED <<variant, now, startedExpired, ncalls, opkind>>
    /\ UNCHANGED notAuthVars

\* wrapper, line 28: the second invocation of func, outside any try.
Invoke2Again ==
    /\ wpc = "invoke2"
    /\ Len(events) < 8
    /\ \E o \in OpOutcomes :
          /\ events' = Append(events, [e |-> "invoke", out |-> o])
          /\ IF o = "ok"
             THEN /\ wpc' = "returned"
                  /\ outcome' = Some([kind |-> "return", value |-> Len(events) + 1])
             ELSE IF Catches(o)
                  THEN wpc' = "retry_refresh" /\ outcome' = outcome
                  ELSE /\ wpc' = "raised"
                       /\ outcome' = Some([kind |-> "raise", value |-> o])
    /\ sent' = InvokeSent
    /\ client' = ClientAfter(ClientToken)
    /\ UNCHANGED <<variant, now, auth, db, saved, lastRefresh, startedExpired, ncalls, opkind>>
    /\ UNCHANGED notAuthVars
Invoke2 ==
    /\ wpc = "invoke2"
    /\ \E o \in OpOutcomes :
          /\ events' = Append(events, [e |-> "invoke", out |-> o])
          /\ IF o = "ok"
             THEN /\ wpc' = "returned"
                  /\ outcome' = Some([kind |-> "return", value |-> Len(events) + 1])
             ELSE /\ wpc' = "raised"
                  /\ outcome' = Some([kind |-> "raise", value |-> o])
    /\ sent' = InvokeSent
    /\ client' = ClientAfter(ClientToken)
    /\ UNCHANGED <<variant, now, auth, db, saved, lastRefresh, startedExpired, ncalls, opkind>>
    /\ UNCHANGED notAuthVars

\* Time passes between two calls.
Tick ==
    /\ wpc \in {"idle", "returned", "raised"}
    /\ now < MaxTime
    /\ now' = now + 1
    /\ UNCHANGED <<variant, auth, db, saved, lastRefresh, wpc, startedExpired,
                   events, outcome, ncalls, client, sent, opkind>>
    /\ UNCHANGED notAuthVars

\* -------------------------------------------------------- StravaAuth table
AthleteIds == 1..MaxAthletes
Scopes == {"read", "activity:read_all"}

\* settings: DEFAULT_ATHLETE_ID and DEFAULT_REFRESH_TOKEN as a project sets
\* them.
DEFAULT_ATHLETE_ID == 1
DEFAULT_REFRESH_TOKEN == "rd"

\* The columns of StravaAuth.
ModelFields == {"id", "access_token", "refresh_token", "athlete_id", "expires_at",
                "scope", "user", "user_id"}

\* What the token endpoint answers to an authorization code: a dict.
ExchangeResponses ==
    {("token_type" :> "Bearer" @@ "expires_at" :> t @@ "refresh_token" :> rt
        @@ "access_token" :> at @@ "athlete" :> [id |-> a]) :
        t \in 0..MaxTime, rt \in {"r1", "r2"}, at \in {"a1", "a2"}, a \in AthleteIds}

\* d[k] = v and d.pop(k) on a dict.
dict_set(d, k, v) == [x \in DOMAIN d \cup {k} |-> IF x = k THEN v ELSE d[x]]
dict_pop(d, k) == [x \in DOMAIN d \ {k} |-> d[x]]

\* exchange_token, lines 78-81: auth_data as it is when the table is queried.
exchange_auth_data(resp, scope) ==
    LET d1 == dict_set(resp, "expires_at", from_epoch_to_datetime(resp["expires_at"]))
        athlete == d1["athlete"]
        d2 == dict_pop(d1, "athlete")
        d3 == dict_set(d2, "athete_id", athlete.id)
    IN  dict_set(d3, "scope", scope)

\* A row with the columns of data, the others NULL.
row(data) ==
    [f \in ModelFields \ {"id", "user"} |-> IF f \in DOMAIN data THEN Some(data[f]) ELSE None]

\* The rows of an athlete.
RowsOf(a) == {i \in DOMAIN records : records[i].athlete_id = Some(a)}

StoreResult(op, a, data, out) ==
    Some([op |-> op, athlete |-> a, existed |-> RowsOf(a) # {},
          access_token |-> data["access_token"],
          refresh_token |-> data["refresh_token"], out |-> out])

\* objects.create(**data) / save(update_fields=...) on row i.
objects_create(data) == Append(records, row(data))
objects_update(i, data) ==
    [records EXCEPT ![i] = [f \in DOMAIN records[i] |->
                               IF f \in DOMAIN data THEN Some(data[f]) ELSE records[i][f]]]

\* exchange_token(code, scope).
\* strava_django.manager, lines 83-95: the lookup reads auth_data["athlete_id"],
\* a key the dict does not hold (line 80 stores "athete_id"), and filters on
\* "athelte_id", which is no column.
\* django.manager, line 59: get_client reads self.access_token, which a manager
\* does not have.
\* django.models, lines 83-92: the loop reads getattr(self, field) for every
\* key of auth_data, and save comes after the loop.
ExchangeToken ==
    /\ nops < MaxOps
    /\ nops' = nops + 1
    /\ \E resp \in ExchangeResponses, scope \in Scopes :
          LET data == exchange_auth_data(resp, scope)
              a == resp["athlete"].id
              done(out) == xop' = StoreResult("exchange", a, resp, out)
          IN  CASE store = "strava_django.manager" ->
                      IF "athlete_id" \notin DOMAIN data
                      THEN done("KeyError") /\ records' = records
                      ELSE IF "athelte_id" \notin ModelFields
                      THEN done("FieldError") /\ records' = records
                      ELSE IF RowsOf(data["athlete_id"]) = {}
                      THEN done("ok") /\ records' = objects_create(data)
                      ELSE /\ done("ok")
                           /\ \E i \in RowsOf(data["athlete_id"]) :
                                 records' = objects_update(i, data)
                [] store = "django.manager" ->
                      done("AttributeError") /\ records' = records
                [] store = "django.models" ->
                      IF \E k \in DOMAIN data : k \notin ModelFields
                      THEN done("AttributeError") /\ records' = records
                      ELSE /\ done("ok")
                           /\ \E i \in DOMAIN records :
                                 records' = objects_update(i, data)
    /\ UNCHANGED store
    /\ UNCHANGED notStoreVars

\* StravaManager.by_default_athlete (strava_django), lines 48-57:
\* get_or_create on the default athlete.
ByDefaultAthlete ==
    /\ nops < MaxOps
    /\ nops' = nops + 1
    /\ store = "strava_django.manager"
    /\ LET defaults == ("athlete_id" :> DEFAULT_ATHLETE_ID
                          @@ "refresh_token" :> DEFAULT_REFRESH_TOKEN
                          @@ "access_token" :> "")
       IN  /\ xop' = StoreResult("by_default_athlete", DEFAULT_ATHLETE_ID, defaults, "ok")
           /\ records' = IF RowsOf(DEFAULT_ATHLETE_ID) = {}
                         THEN Append(records, [row(defaults) EXCEPT !.access_token = None])
                         ELSE records
    /\ UNCHANGED store
    /\ UNCHANGED notStoreVars

\* refresh_token() on the session of row i: the token request, then
\* save(update_fields) of the fields the refresh sets (see refresh_token).
RefreshRecord ==
    /\ nops < MaxOps
    /\ nops' = nops + 1
    /\ \E i \in DOMAIN records, d \in RefreshResponses :
          LET a == records[i].athlete_id[1]
          IN  IF store = "django.manager"
              THEN /\ xop' = StoreResult("refresh", a, d, "TypeError")
                   /\ records' = records
              ELSE /\ xop' = StoreResult("refresh", a, d, "ok")
                   /\ records' = objects_update(i,
                         ("access_token" :> d.access_token
                            @@ "expires_at" :> from_epoch_to_datetime(d.expires_at)))
    /\ UNCHANGED store
    /\ UNCHANGED notStoreVars

\* ------------------------------------------------------ StravaAuth.bind_user
\* The primary keys of the users passed to bind_user: a saved user has one, a
\* user that was never saved has None.
UserIds == 1..MaxUsers
UserPks == {None} \cup {Some(u) : u \in UserIds}

\* bind_user, line 25: objects.filter(user_id=user.pk).exclude(id=self.id), the
\* rows other than row i that hold pk (a filter on None is a test for NULL).
bound_rows_none(i, pk) == {}
bound_rows(i, pk) == {j \in DOMAIN records \ {i} : records[j].user_id = pk}

BindResult(i, pk, out) ==
    Some([op |-> "bind_user", target |-> i, user |-> pk, out |-> out,
          before |-> records])

\* bind_user(user) on the session of row i (models.py, lines 21-29), or through
\* a manager (manager.py, lines 115-117) whose auth_instance is row i; i = 0
\* is a manager that found no session: auth_instance is None and the call
\* raises AttributeError.
BindUser ==
    /\ nops < MaxBinds
    /\ nops' = nops + 1
    /\ \E i \in {0} \cup DOMAIN records, pk \in UserPks :
          IF i = 0
          THEN xop' = BindResult(i, pk, "AttributeError") /\ records' = records
          ELSE IF bound_rows(i, pk) # {}
          THEN xop' = BindResult(i, pk, "ValidationError") /\ records' = records
          ELSE /\ xop' = BindResult(i, pk, "ok")
               /\ records' = [records EXCEPT ![i].user_id = pk]
    /\ UNCHANGED store
    /\ UNCHANGED notStoreVars

\* -------------------------------------------------------- authorization_url
\* constants.py: APPROVAL_PROMPT and SCOPE, the values of the two enums.
APPROVAL_PROMPT == {"auto", "force"}
SCOPE == {"read", "read_all", "profile:read_all", "profile:write",
          "activity:read", "activity:read_all", "activity:write"}
\* base.py, line 25.
api_domain == "www.strava.com"

\* ','.join(scope)
RECURSIVE join(_)
join(scope) ==
    IF scope = <<>> THEN ""
    ELSE IF Len(scope) = 1 THEN scope[1]
    ELSE scope[1] \o "," \o join(Tail(scope))

\* What a call gives its caller.
CReturn(value) == Some([kind |-> "return", cls |-> "", value |-> Some(value)])
CRaise(cls) == Some([kind |-> "raise", cls |-> cls, value |-> None])

\* The arguments authorization_url is called with: a scope (optional, a list
\* of strings), an approval prompt (optional), a state (optional; a string or
\* a value of another type) and the two flags.
ScopeLists == UNION {[1..n -> SCOPE \cup {"write", "activity"}] : n \in 0..MaxScope}
UrlInputs ==
    [fn : {"authorization_url"},
     scope : {None} \cup {Some(sc) : sc \in ScopeLists},
     approval_prompt : {None, Some("auto"), Some("force"), Some("always")},
     state : {None, Some([isstr |-> TRUE, v |-> "s1"]), Some([isstr |-> FALSE, v |-> "7"])},
     mobile : BOOLEAN,
     deep_link : BOOLEAN]

\* authorization_url, line 51: set(scope) - set(SCOPE.values()).
invalid_scope_none(scope) == {}
invalid_scope(scope) == {scope[i] : i \in DOMAIN scope} \ SCOPE

\* authorization_url, lines 41-78.
authorization_url(in) ==
    LET approval_prompt == IF in.approval_prompt # None /\ in.approval_prompt[1] # ""
                           THEN in.approval_prompt[1] ELSE "auto"
        scope == IF in.scope # None /\ in.scope[1] # <<>>
                 THEN in.scope[1] ELSE <<"read", "activity:read_all">>
        qs == ("client_id" :> "id" @@ "redirect_uri" :> "uri" @@ "response_type" :> "code"
                 @@ "approval_prompt" :> approval_prompt @@ "scope" :> join(scope))
        qs_state == IF in.state # None THEN dict_set(qs, "state", in.state[1].v) ELSE qs
        scheme == IF in.deep_link THEN "strava" ELSE "https"
        path == IF in.mobile /\ ~in.deep_link THEN "oauth/mobile/authorize/"
                ELSE IF in.deep_link THEN "//oauth/mobile/authorize/"
                ELSE "oauth/authorize/"
    IN  IF approval_prompt \notin APPROVAL_PROMPT THEN CRaise("AssertionError")
        ELSE IF invalid_scope(scope) # {} THEN CRaise("AssertionError")
        ELSE IF in.state # None /\ ~in.state[1].isstr THEN CRaise("AssertionError")
        ELSE CReturn([scheme |-> scheme, netloc |-> api_domain, path |-> path,
                      query |-> qs_state])

\* StravaApiClientV3.authorization_url(...) is called.
AuthorizationUrl ==
    /\ call_in.fn = "authorization_url"
    /\ call_out = None
    /\ call_out' = authorization_url(call_in)
    /\ UNCHANGED call_in
    /\ UNCHANGED notCallVars

\* -------------------------------------------- validate_webhook_subscription
\* constants.py, line 32.
DEFAULT_VERIFY_TOKEN == "STRAVA"

\* The arguments of a webhook validation: through the client or through the
\* manager of strava_django, whose setting WEBHOOK_VERIFY_TOKEN is `secret`.
WebhookInputs ==
    [fn : {"validate_webhook_subscription"},
     via : {"client", "manager"},
     hub_mode : {"subscribe", "unsubscribe", ""},
     hub_challenge : {"c1", "c2"},
     verify_token : {None, Some(""), Some("STRAVA"), Some("s3cret")},
     secret : {"STRAVA", "s3cret"}]

\* client.py, lines 93-94: the test of verify_token.
token_accepted(verify_token) ==
    (verify_token # None /\ verify_token[1] # "") => verify_token[1] = DEFAULT_VERIFY_TOKEN

\* StravaApiClientV3.validate_webhook_subscription, lines 91-96.
client_validate_webhook_subscription(hub_mode, hub_challenge, verify_token) ==
    IF hub_mode # "subscribe" THEN CRaise("AssertionError")
    ELSE IF ~token_accepted(verify_token) THEN CRaise("AssertionError")
    ELSE CReturn("hub.challenge" :> hub_challenge)

\* StravaManager.validate_webhook_subscription (strava_django), lines 187-190.
manager_validate_webhook_subscription(in) ==
    IF in.verify_token # Some(in.secret) THEN CRaise("ValidationError")
    ELSE client_validate_webhook_subscription(in.hub_mode, in.hub_challenge, None)

\* A webhook callback is validated.
ValidateWebhookSubscription ==
    /\ call_in.fn = "validate_webhook_subscription"
    /\ call_out = None
    /\ call_out' = IF call_in.via = "client"
                   THEN client_validate_webhook_subscription(
                            call_in.hub_mode, call_in.hub_challenge, call_in.verify_token)
                   ELSE manager_validate_webhook_subscription(call_in)
    /\ UNCHANGED call_in
    /\ UNCHANGED notCallVars

\* ------------------------------------------------- two concurrent refreshes
\* Two callers run a wrapped operation on one session at the same time, each
\* statement of wrapper and refresh_token being one step.
Callers == {1, 2}

\* The time of the two calls.
RaceNow == MaxTime

\* The auth instance caller c works on.
InstOf(c) == IF rshared THEN 1 ELSE c

\* ensure_auth, line 22: the caller reads expires_at and tests it.
RaceCheck ==
    \E c \in Callers :
        /\ rpc[c] = "check"
        /\ LET expires_at == rinst[InstOf(c)].expires_at
           IN  rpc' = [rpc EXCEPT ![c] =
                          IF expires_at # None /\ expires_at[1].secs < RaceNow
                          THEN "request" ELSE "done"]
        /\ UNCHANGED <<rshared, rinst, rdb, rresp>>
        /\ UNCHANGED notRaceVars

\* refresh_token, lines 132-136: the token request is answered.
RaceRequest ==
    \E c \in Callers, d \in RefreshResponses :
        /\ rpc[c] = "request"
        /\ rresp' = [rresp EXCEPT ![c] = Some(d)]
        /\ rpc' = [rpc EXCEPT ![c] = "set_expires"]
        /\ UNCHANGED <<rshared, rinst, rdb>>
        /\ UNCHANGED notRaceVars

\* refresh_token, line 141: self.auth_instance.expires_at = expires_at.
RaceSetExpires ==
    \E c \in Callers :
        /\ rpc[c] = "set_expires"
        /\ rinst' = [rinst EXCEPT ![InstOf(c)].expires_at =
                        Some(from_epoch_to_datetime(rresp[c][1].expires_at))]
        /\ rpc' = [rpc EXCEPT ![c] = "set_token"]
        /\ UNCHANGED <<rshared, rdb, rresp>>
        /\ UNCHANGED notRaceVars

\* refresh_token, line 142: self.auth_instance.access_token = ...
RaceSetToken ==
    \E c \in Callers :
        /\ rpc[c] = "set_token"
        /\ rinst' = [rinst EXCEPT ![InstOf(c)].access_token = rresp[c][1].access_token]
        /\ rpc' = [rpc EXCEPT ![c] = "save"]
        /\ UNCHANGED <<rshared, rdb, rresp>>
        /\ UNCHANGED notRaceVars

\* refresh_token, line 146: save(update_fields=["access_token", "expires_at"])
\* writes the two fields of the instance to the row in one statement.
RaceSave ==
    \E c \in Callers :
        /\ rpc[c] = "save"
        /\ rdb' = [rdb EXCEPT !.access_token = rinst[InstOf(c)].access_token,
                              !.expires_at = rinst[InstOf(c)].expires_at]
        /\ rpc' = [rpc EXCEPT ![c] = "done"]
        /\ UNCHANGED <<rshared, rinst, rresp>>
        /\ UNCHANGED notRaceVars

\* ------------------------------------------------------------ RequestHandler
\* The responses of the service: a status, a body that decodes as JSON
\* (optional: None when it does not), and the two rate-limit headers.  A header
\* is None when missing, else its comma-separated fields, each an optional
\* integer (None when int() refuses it).
Statuses == {100, 200, 204, 304, 400, 401, 402, 403, 404, 418, 429, 500, 503}
Bodies == {None, Some("json")}
\* <<X-RateLimit-Limit, X-RateLimit-Usage>>
RateHeaders ==
    {<<l, u>> : l \in {None, <<Some(2), Some(2)>>, <<None, Some(2)>>},
                u \in {None, <<Some(1), Some(3)>>, <<Some(2)>>}}
\* A body matters for the statuses that are not errors only.
Answers ==
    {[status |-> st, body |-> b, limit |-> hd[1], usage |-> hd[2]] :
        st \in Statuses, b \in Bodies, hd \in RateHeaders}
    \ {a \in [status : Statuses, body : {None}, limit : {x[1] : x \in RateHeaders},
               usage : {x[2] : x \in RateHeaders}] : a.status >= 400}
\* The answers of a service that is used with hooks registered.
PlainAnswers ==
    {a \in Answers : a.status \in {200, 404} /\ a.limit = None /\ a.usage = None}
\* The answers of a service that is used with hooks registered and sends its
\* rate-limit headers or leaves them out.
RatedAnswers ==
    {a \in Answers : /\ a.status \in {200, 404}
                     /\ a.body # None
                     /\ (a.limit = None) = (a.usage = None)
                     /\ a.limit \in {None, <<Some(2), Some(2)>>}
                     /\ a.usage \in {None, <<Some(1), Some(3)>>}}
\* The responses the client may get to its n-th request.
Responses(n) ==
    {[id |-> n, status |-> a.status, body |-> a.body, limit |-> a.limit,
      usage |-> a.usage] : a \in service}

Hooks == {"h1", "h2"}
Methods == {"get", "post"}

\* error_mapping, lines 29-36.
error_mapping_shifted ==
    (400 :> "InvalidRequest" @@ 401 :> "Unauthenticated" @@ 402 :> "PermissionDenied"
     @@ 403 :> "PermissionDenied" @@ 404 :> "NotFound" @@ 429 :> "RequestLimitExceeded")
error_mapping ==
    (400 :> "InvalidRequest" @@ 401 :> "Unauthenticated" @@ 403 :> "PermissionDenied"
     @@ 404 :> "NotFound" @@ 402 :> "PremiumAccountRequired"
     @@ 429 :> "RequestLimitExceeded")

\* handle_response, line 210: self.error_mapping.get(status_code, StravaError).
exp_cls(status) ==
    IF status \in DOMAIN error_mapping THEN error_mapping[status] ELSE "StravaError"

\* handle_response, line 208: response.raise_for_status() raises HTTPError for
\* the client and server error statuses.
raises_server_only(status) == 500 <= status /\ status < 600
raises_for_status(status) == 400 <= status /\ status < 600

\* _get_strava_limits, lines 113-126: one header split at the commas into
\* exactly two integers, or (None, None).
parse_pair_lenient(header) ==
    IF header # None /\ Len(header) = 2
    THEN <<IF header[1] # None THEN header[1] ELSE Some(0),
           IF header[2] # None THEN header[2] ELSE Some(0)>>
    ELSE <<None, None>>
parse_pair(header) ==
    IF header # None /\ Len(header) = 2 /\ header[1] # None /\ header[2] # None
    THEN <<Some(header[1][1]), Some(header[2][1])>>
    ELSE <<None, None>>

\* _get_strava_limits, lines 111-131.
get_strava_limits(resp) ==
    [set |-> TRUE,
     fifteen_minute_rate |-> parse_pair(resp.limit)[1],
     daily_rate |-> parse_pair(resp.limit)[2],
     fifteen_minute_rate_usage |-> parse_pair(resp.usage)[1],
     daily_rate_usage |-> parse_pair(resp.usage)[2]]

\* exceeded_fifteen_minutes_budget and exceeded_daily_budget, lines 188-202:
\* reading a rate attribute that was never set raises AttributeError; with
\* both values known the result is usage >= rate, else None.
exceeded(rs, rate, usage) ==
    IF ~rs.set THEN [raises |-> TRUE, value |-> None]
    ELSE IF rate # None /\ usage # None
    THEN [raises |-> FALSE, value |-> Some(usage[1] >= rate[1])]
    ELSE [raises |-> FALSE, value |-> None]
exceeded_fifteen_minutes_budget(rs) ==
    exceeded(rs, rs.fifteen_minute_rate, rs.fifteen_minute_rate_usage)
exceeded_daily_budget(rs) == exceeded(rs, rs.daily_rate, rs.daily_rate_usage)


\* _before_request / _after_request, lines 139-141 and 149-151: the hooks of
\* subs are called in list order with arg; the call numbered `fails` raises
\* (0: none does) and ends the loop.
hook_calls_reversed(subs, kind, arg, fails) ==
    [i \in 1..(IF fails = 0 THEN Len(subs) ELSE fails) |->
        [k |-> kind, h |-> subs[Len(subs) + 1 - i], arg |-> arg]]
hook_calls_all(subs, kind, arg, fails) ==
    [i \in 1..Len(subs) |-> [k |-> kind, h |-> subs[i], arg |-> arg]]
hook_calls(subs, kind, arg, fails) ==
    [i \in 1..(IF fails = 0 THEN Len(subs) ELSE fails) |->
        [k |-> kind, h |-> subs[i], arg |-> arg]]

\* What a dispatch gives its caller; `at` is the position of the hook an
\* error comes from (0 when it comes from no hook).
DReturn(value) ==
    Some([kind |-> "return", cls |-> "", resp |-> 0, value |-> value, at |-> 0])
DRaise(cls, resp) ==
    Some([kind |-> "raise", cls |-> cls, resp |-> resp, value |-> "", at |-> 0])
\* The error of the i-th hook of a list leaves _dispatcher as it is.
HookRaise(i) ==
    Some([kind |-> "raise", cls |-> "HookError", resp |-> 0, value |-> "", at |-> i])

\* _dispatcher, line 105: response.json() raises when the body is not JSON.
json_result(resp) ==
    IF resp.body = None THEN DRaise("JSONDecodeError", 0) ELSE DReturn(resp.body[1])

\* before_request_hook, lines 166-171.
BeforeRequestHook ==
    /\ Len(before_subs) < MaxHooks
    /\ \E h \in Hooks : before_subs' = Append(before_subs, h)
    /\ UNCHANGED <<client_token, after_subs, last_response, rates, response,
                   trace, dstage, dres, ndispatch, service>>
    /\ UNCHANGED notDispVars

\* after_request_hook, lines 181-186.
AfterRequestHook ==
    /\ Len(after_subs) < MaxHooks
    /\ \E h \in Hooks : after_subs' = Append(after_subs, h)
    /\ UNCHANGED <<client_token, before_subs, last_response, rates, response,
                   trace, dstage, dres, ndispatch, service>>
    /\ UNCHANGED notDispVars

\* _dispatcher, lines 72-105, with handle_response, lines 204-212.  bf and af
\* number the before and the after hook that raises (0: none).
Dispatch ==
    /\ ndispatch < MaxDispatches
    /\ ndispatch' = ndispatch + 1
    /\ \E m \in Methods :
        LET n == ndispatch + 1
            ctx == <<"context", n>>
            http == [k |-> "http", h |-> m,
                     arg |-> <<"headers", get_authorization_header(client_token)>>]
        IN  \/ \E bf \in 1..Len(before_subs) :
                  /\ trace' = hook_calls(before_subs, "before", ctx, bf)
                  /\ dstage' = "before"
                  /\ dres' = HookRaise(bf)
                  /\ UNCHANGED <<response, rates, last_response>>
            \/ \E r \in Responses(n) :
                  LET before == hook_calls(before_subs, "before", ctx, 0)
                      after(af) == hook_calls(after_subs, "after", <<"response", n>>, af)
                  IN  /\ response' = Some(r)
                      /\ \/ \E af \in 1..Len(after_subs) :
                               /\ trace' = before \o <<http>> \o after(af)
                               /\ dstage' = "after"
                               /\ dres' = HookRaise(af)
                               /\ UNCHANGED <<rates, last_response>>
                         \/ /\ trace' = before \o <<http>> \o after(0)
                            /\ rates' = get_strava_limits(r)
                            /\ IF raises_for_status(r.status)
                               THEN /\ dstage' = "handled"
                                    /\ dres' = DRaise(exp_cls(r.status), r.id)
                                    /\ UNCHANGED last_response
                               ELSE /\ dstage' = "decoded"
                                    /\ last_response' = [set |-> TRUE, val |-> Some(r.id)]
                                    /\ dres' = json_result(r)
    /\ UNCHANGED <<client_token, before_subs, after_subs, service>>
    /\ UNCHANGED notDispVars

\* ------------------------------------------------------------ specifications
\* No session is in use.
AuthParked ==
    /\ variant = "none"
    /\ now = 0
    /\ auth = [access_token |-> "", refresh_token |-> "", expires_at |-> None]
    /\ db = auth
    /\ saved = None
    /\ lastRefresh = None
    /\ wpc = "off"
    /\ startedExpired = FALSE
    /\ events = <<>>
    /\ outcome = None
    /\ ncalls = 0
    /\ client = None
    /\ sent = <<>>
    /\ opkind = "single"

\* No BatchIterator is in use.
IterParked ==
    /\ src = 0
    /\ limit = None
    /\ page = 1
    /\ per_page = default_per_page
    /\ fetched_count = 0
    /\ finished = FALSE
    /\ calls = <<>>
    /\ lastLen = 0
    /\ buffer = <<>>
    /\ yielded = <<>>
    /\ ipc = "off"
    /\ iters = 0
    /\ built = None

\* No table is in use.
StoreParked ==
    /\ store = "none"
    /\ records = <<>>
    /\ xop = None
    /\ nops = 0

\* No two callers are at work.
RaceParked ==
    /\ rshared = FALSE
    /\ rinst = <<>>
    /\ rdb = [access_token |-> "", refresh_token |-> "", expires_at |-> None]
    /\ rpc = <<>>
    /\ rresp = <<>>

\* No call is made.
CallParked ==
    /\ call_in = [fn |-> "none"]
    /\ call_out = None

\* No client is in use.
DispParked ==
    /\ client_token = ""
    /\ before_subs = <<>>
    /\ after_subs = <<>>
    /\ last_response = [set |-> FALSE, val |-> None]
    /\ rates = [set |-> FALSE, fifteen_minute_rate |-> None, daily_rate |-> None,
                fifteen_minute_rate_usage |-> None, daily_rate_usage |-> None]
    /\ response = None
    /\ trace = <<>>
    /\ dstage = "off"
    /\ dres = None
    /\ ndispatch = 0
    /\ service = {}

InitIter ==
    /\ src \in 0..MaxItems
    /\ limit \in {None} \cup {Some(l) : l \in Limits}
    /\ page = 1
    /\ per_page = default_per_page
    /\ fetched_count = 0
    /\ finished = FALSE
    /\ calls = <<>>
    /\ lastLen = 0
    /\ buffer = <<>>
    /\ yielded = <<>>
    /\ ipc = "new"
    /\ iters = 0
    /\ built = None
    /\ AuthParked
    /\ DispParked
    /\ StoreParked
    /\ CallParked
    /\ RaceParked

NextIter ==
    \/ Construct
    \/ ClientListOp
    \/ IterStart
    \/ FetchStep
    \/ YieldStep
    \/ StopStep

\* A BatchIterator over a remote list, built and iterated.
SpecIter == InitIter /\ [][NextIter]_vars

\* A session as the authorization-code exchange left it: the record saved, a
\* token that expires at some time (or at an unknown time).
InitAuth ==
    /\ variant \in Variants
    /\ now = 0
    /\ \E x \in {None} \cup {Some(from_epoch_to_datetime(t)) : t \in 0..MaxTime} :
      \E tok \in {"a0", ""} :
          auth = [access_token |-> tok, refresh_token |-> "r0", expires_at |-> x]
    /\ db = auth
    /\ saved = None
    /\ lastRefresh = None
    /\ wpc = "idle"
    /\ startedExpired = FALSE
    /\ events = <<>>
    /\ outcome = None
    /\ ncalls = 0
    /\ client = None
    /\ sent = <<>>
    /\ opkind = "single"
    /\ IterParked
    /\ DispParked
    /\ StoreParked
    /\ CallParked
    /\ RaceParked

NextAuth ==
    \/ CallWrapped
    \/ PreRefresh
    \/ Invoke1
    \/ RetryRefresh
    \/ Invoke2
    \/ Tick

\* Calls of wrapped operations on one session.
SpecAuth == InitAuth /\ [][NextAuth]_vars

\* StravaApiClientV3(access_token): __init__ (client.py, lines 12-13) sets the
\* token alone; RequestHandler.__init__ is not run, so last_response and the
\* rate attributes are not set, and no hook list exists.
NewClient ==
    /\ client_token \in {"", "a0"}
    /\ before_subs = <<>>
    /\ after_subs = <<>>
    /\ last_response = [set |-> FALSE, val |-> None]
    /\ rates = [set |-> FALSE, fifteen_minute_rate |-> None, daily_rate |-> None,
                fifteen_minute_rate_usage |-> None, daily_rate_usage |-> None]
    /\ response = None
    /\ trace = <<>>
    /\ dstage = "idle"
    /\ dres = None
    /\ ndispatch = 0
    /\ IterParked
    /\ AuthParked
    /\ StoreParked
    /\ CallParked
    /\ RaceParked

InitDisp == NewClient /\ service = Answers

NextDisp == Dispatch

\* One client without hooks: requests dispatched, any answer received.
SpecDisp == InitDisp /\ [][NextDisp]_vars

InitHooks == NewClient /\ service = PlainAnswers

NextHooks ==
    \/ BeforeRequestHook
    \/ AfterRequestHook
    \/ Dispatch

\* One client with hooks registered at any time, against a service that
\* answers 200 or 404.
SpecHooks == InitHooks /\ [][NextHooks]_vars

InitRated == NewClient /\ service = RatedAnswers

\* One client with hooks registered at any time, against a service that
\* answers 200 or 404, with or without rate-limit headers.
SpecRated == InitRated /\ [][NextHooks]_vars

\* A table that is empty or holds the session of one athlete, saved by an
\* earlier run.
InitStore ==
    /\ store \in Variants
    /\ records \in {<<>>,
                    <<row(("athlete_id" :> 1 @@ "access_token" :> "a0"
                             @@ "refresh_token" :> "r0"))>>}
    /\ xop = None
    /\ nops = 0
    /\ IterParked
    /\ AuthParked
    /\ DispParked
    /\ CallParked
    /\ RaceParked

NextStore ==
    \/ ExchangeToken
    \/ ByDefaultAthlete
    \/ RefreshRecord

\* Exchanges, default-athlete lookups and refreshes on one table.
SpecStore == InitStore /\ [][NextStore]_vars

\* The sessions of the athletes, none bound to a user yet.
InitBind ==
    /\ store = "strava_django.manager"
    /\ records = [a \in AthleteIds |-> row(("athlete_id" :> a @@ "access_token" :> "a0"
                                              @@ "refresh_token" :> "r0"))]
    /\ xop = None
    /\ nops = 0
    /\ IterParked
    /\ AuthParked
    /\ DispParked
    /\ CallParked
    /\ RaceParked

NextBind == BindUser

\* Calls of bind_user, one after the other, on one table.
SpecBind == InitBind /\ [][NextBind]_vars

InitUrl ==
    /\ call_in \in UrlInputs
    /\ call_out = None
    /\ IterParked
    /\ AuthParked
    /\ DispParked
    /\ StoreParked
    /\ RaceParked

NextUrl == AuthorizationUrl

\* One call of authorization_url with any arguments.
SpecUrl == InitUrl /\ [][NextUrl]_vars

InitWebhook ==
    /\ call_in \in WebhookInputs
    /\ call_out = None
    /\ IterParked
    /\ AuthParked
    /\ DispParked
    /\ StoreParked
    /\ RaceParked

NextWebhook == ValidateWebhookSubscription

\* One webhook validation with any arguments.
SpecWebhook == InitWebhook /\ [][NextWebhook]_vars

\* An expired session, its row loaded by two callers: into one instance both
\* hold (one manager or model instance used by two threads) or into one
\* instance each.
InitRace ==
    /\ rshared \in BOOLEAN
    /\ rdb = [access_token |-> "a0", refresh_token |-> "r0",
              expires_at |-> Some(from_epoch_to_datetime(0))]
    /\ rinst = [c \in Callers |-> rdb]
    /\ rpc = [c \in Callers |-> "check"]
    /\ rresp = [c \in Callers |-> None]
    /\ IterParked
    /\ AuthParked
    /\ DispParked
    /\ StoreParked
    /\ CallParked

NextRace ==
    \/ RaceCheck
    \/ RaceRequest
    \/ RaceSetExpires
    \/ RaceSetToken
    \/ RaceSave

\* Two callers refresh one session, their steps interleaved.
SpecRace == InitRace /\ [][NextRace]_vars

\* ------------------------------------------------- BatchIterator: properties
RECURSIVE FetchedItems(_)
\* The items returned by the first n fetches, in fetch order.
FetchedItems(n) ==
    IF n = 0 THEN <<>>
    ELSE FetchedItems(n - 1) \o fetcher(src, calls[n][1], calls[n][2])

\* C1: with no limit, once iteration has ended the items yielded are exactly
\* the items returned by all page fetches, the first page included, each once
\* and in fetch order (so their number is the sum of the page lengths).
C1_YieldsAllFetched ==
    (limit = None /\ ipc = "done") => yielded = FetchedItems(Len(calls))

\* C2: for a limit L >= 1 and a source of at least L items, the n-th fetch is
\* made with page = n and per_page = min(default_per_page, L - items fetched
\* before it); L = 250 gives (1,100), (2,100), (3,50) and nothing else, L = 7
\* gives (1,7) alone; the page number is 1 + the number of fetches made.
C2_FetchCalls ==
    /\ page = Len(calls) + 1
    /\ (limit # None /\ limit[1] >= 1 /\ src >= limit[1]) =>
          /\ \A n \in 1..Len(calls) :
                calls[n] = <<n, Min(default_per_page,
                                    limit[1] - Len(FetchedItems(n - 1)))>>
          /\ (ipc = "done" /\ limit[1] = 250) =>
                calls = << <<1, 100>>, <<2, 100>>, <<3, 50>> >>
          /\ (ipc = "done" /\ limit[1] = 7) => calls = << <<1, 7>> >>

C2_Witness ==
    /\ ipc = "done"
    /\ limit = Some(250)
    /\ calls = << <<1, 100>>, <<2, 100>>, <<3, 50>> >>

\* C3: a BatchIterator built with limit = 0 never calls the fetch function and
\* yields nothing.
C3_ZeroLimitNoFetch ==
    limit = Some(0) => (calls = <<>> /\ yielded = <<>>)

\* C4: after each fetch, finished is true exactly when the page just fetched
\* holds fewer items than were requested for it, or fetched_count equals limit.
C4_FinishedIff ==
    calls # <<>> =>
        (finished <=> \/ lastLen < calls[Len(calls)][2]
                      \/ (limit # None /\ fetched_count = limit[1]))

C4_Witness ==
    /\ calls # <<>>
    /\ finished
    /\ lastLen = calls[Len(calls)][2]
    /\ limit # None /\ fetched_count = limit[1]
    /\ Len(calls) > 1

\* C5 as stated: once finished is true no later step calls the fetch function,
\* yields an item, or changes page, fetched_count or finished.
C5_NothingAfterFinished ==
    [][finished => UNCHANGED <<calls, yielded, page, fetched_count, finished>>]_vars

\* C5 as amended: once finished is true no later step calls the fetch function
\* or changes page, fetched_count or finished; the only items still yielded
\* are the remaining items of the last page fetched, in order; and a second
\* iteration of the exhausted iterator yields nothing.
C5_FrozenAfterFinished ==
    [][/\ finished =>
            /\ UNCHANGED <<calls, page, fetched_count, finished>>
            /\ yielded' # yielded =>
                  /\ buffer # <<>>
                  /\ yielded' = Append(yielded, Head(buffer))
                  /\ buffer' = Tail(buffer)
            /\ buffer' # buffer => buffer' = Tail(buffer)
       /\ iters >= 2 => yielded' = yielded]_vars

C5_Witness ==
    /\ iters = 2
    /\ ipc = "done"
    /\ finished
    /\ yielded # <<>>

\* C13: for a limit L >= 1, with an endpoint that returns at most the number of
\* items asked for, fetched_count never exceeds L.
C13_FetchedWithinLimit ==
    (limit # None /\ limit[1] >= 1) =>
        /\ fetched_count <= limit[1]
        /\ lastLen <= (IF calls = <<>> THEN 0 ELSE calls[Len(calls)][2])

C13_Witness ==
    /\ limit = Some(150)
    /\ calls = << <<1, 100>>, <<2, 50>> >>
    /\ fetched_count = 150

\* C14: for a limit below 0 nothing is ever yielded, whatever the fetch
\* function returns, and the iteration ends: when its loop tests the condition
\* the iterator is finished.
C14_NegativeLimitEmpty ==
    (limit # None /\ limit[1] < 0) =>
        /\ yielded = <<>>
        /\ (ipc = "iter" /\ buffer = <<>>) => finished

\* C15: construction calls the fetch function zero times, the first fetch is
\* made after iteration has begun, and when a later fetch is made every item
\* of the pages fetched before it has been handed to the consumer.
C15_Lazy ==
    /\ iters = 0 => calls = <<>>
    /\ fetched_count - lastLen <= Len(yielded)

\* C26: a list operation of the client, called with a per_page and a limit,
\* constructs its BatchIterator without error, and no fetch of that iterator
\* asks for more than per_page items.
C26_ListOpsConstruct ==
    (built # None /\ built[1].via = "client") =>
        /\ built[1].out = "ok"
        /\ \A n \in 1..Len(calls) : calls[n][2] <= built[1].per_page[1]

\* --------------------------------------------------- ensure_auth: properties
Invoked(out) == [e |-> "invoke", out |-> out]
Refreshed(out) == [e |-> "refresh", out |-> out]
\* The positions in events of the invocations of the wrapped operation.
InvokeAt == {k \in 1..Len(events) : events[k].e = "invoke"}
RefreshAt == {k \in 1..Len(events) : events[k].e = "refresh"}
Raised(err) == Some([kind |-> "raise", value |-> err])
\* The call returned what the invocation at position k of events returned.
Returned(k) == Some([kind |-> "return", value |-> k])

\* C6: in a call begun with a token that is not expired, when the first
\* invocation raises Unauthenticated nothing but a refresh follows it, a
\* refresh that succeeds is followed by the second invocation, and when that
\* one succeeds the call returns its result after exactly one refresh, placed
\* between exactly two invocations.
C6_RefreshAndRetryOnce ==
    (~startedExpired /\ events # <<>>) =>
        /\ events[1].e = "invoke"
        /\ events[1] = Invoked("Unauthenticated") =>
              /\ Len(events) = 1 => wpc = "retry_refresh"
              /\ Len(events) >= 2 => events[2].e = "refresh"
              /\ (Len(events) = 2 /\ events[2] = Refreshed("ok")) => wpc = "invoke2"
              /\ Len(events) >= 3 => events[3].e = "invoke"
              /\ (Len(events) >= 3 /\ events[3] = Invoked("ok")) =>
                    /\ wpc = "returned"
                    /\ outcome = Returned(3)
                    /\ InvokeAt = {1, 3}
                    /\ RefreshAt = {2}

C6_Witness ==
    /\ ~startedExpired
    /\ wpc = "returned"
    /\ events = <<Invoked("Unauthenticated"), Refreshed("ok"), Invoked("ok")>>
    /\ outcome = Returned(3)

\* C7: when the first and the second invocation both raise Unauthenticated,
\* the second Unauthenticated reaches the caller: there is no third invocation
\* and no refresh after the second failure.
C7_SecondFailurePropagates ==
    \A j, k \in InvokeAt :
        (j < k /\ events[j] = Invoked("Unauthenticated")
               /\ events[k] = Invoked("Unauthenticated")) =>
            /\ wpc = "raised"
            /\ outcome = Raised("Unauthenticated")
            /\ k = Len(events)
            /\ Cardinality(InvokeAt) = 2

C7_Witness ==
    /\ wpc = "raised"
    /\ events = <<Invoked("Unauthenticated"), Refreshed("ok"),
                  Invoked("Unauthenticated")>>
    /\ outcome = Raised("Unauthenticated")

C9_RefreshStoresTokens ==
    lastRefresh # None =>
        LET resp == lastRefresh[1].resp
            prev == lastRefresh[1].prev
        IN  /\ auth.access_token = resp.access_token
            /\ db.access_token = resp.access_token
            /\ auth.expires_at = Some(from_epoch_to_datetime(resp.expires_at))
            /\ db.expires_at = auth.expires_at
            /\ resp.refresh_token # prev =>
                  /\ auth.refresh_token = resp.refresh_token
                  /\ db.refresh_token = resp.refresh_token
                  /\ "refresh_token" \in saved[1]
            /\ resp.refresh_token = prev => "refresh_token" \notin saved[1]

\* C10: an invocation that fails with an error other than Unauthenticated ends
\* the call: that error reaches the caller, and no refresh and no further
\* invocation follows it.
C10_OtherErrorsPropagate ==
    \A k \in InvokeAt :
        events[k].out \in ErrorKinds \ {"Unauthenticated"} =>
            /\ k = Len(events)
            /\ wpc = "raised"
            /\ outcome = Raised(events[k].out)

C10_Witness ==
    /\ wpc = "raised"
    /\ events = <<Invoked("ImproperlyConfigured")>>
    /\ outcome = Raised("ImproperlyConfigured")

\* C16: a wrapped call made while expires_at is None does not raise in the
\* expiry pre-check, performs no refresh before the wrapped operation, and
\* invokes the wrapped operation.
C16_NullExpirySkipsPreCheck ==
    (ncalls > 0 /\ auth.expires_at = None) =>
        /\ wpc # "pre_refresh"
        /\ wpc \in {"returned", "raised"} =>
              (events # <<>> /\ events[1].e = "invoke")

\* C17: every request dispatched carries Authorization: Bearer <the session's
\* access token at that time>; the session's token is the one the latest
\* successful refresh obtained; and the request that follows a successful
\* refresh, the re-issued call included, carries the token just obtained (so
\* the replaced token is attached again only if the service issues it again),
\* while without a refresh the token attached does not change.
C17_BearerCurrentToken ==
    /\ \A i \in 1..Len(sent) :
          sent[i].cur # "" => sent[i].hdr = Some(<<"Bearer", sent[i].cur>>)
    /\ lastRefresh # None => auth.access_token = lastRefresh[1].resp.access_token
    /\ \A j \in 2..Len(sent) :
          IF sent[j - 1].new # None
          THEN sent[j].hdr = Some(<<"Bearer", sent[j - 1].new[1]>>)
          ELSE sent[j].hdr = sent[j - 1].hdr

C17_Witness ==
    /\ variant = "django.models"
    /\ Len(sent) = 4
    /\ sent[1].hdr = Some(<<"Bearer", "a0">>) /\ sent[1].new = Some("a1")
    /\ sent[2].hdr = Some(<<"Bearer", "a1">>)
    /\ sent[3].new = Some("a2")
    /\ sent[4].hdr = Some(<<"Bearer", "a2">>)
    /\ wpc = "returned"

\* ------------------------------------------------- StravaAuth table: properties
\* C18: at most one row exists per athlete id, and an exchange for an athlete
\* id that already has a row returns, leaves that row the only one of the
\* athlete and stores the tokens of the exchange response in it.
C18_ExchangeUpdatesInPlace ==
    /\ \A a \in AthleteIds : Cardinality(RowsOf(a)) <= 1
    /\ (xop # None /\ xop[1].op = "exchange" /\ xop[1].existed) =>
          /\ xop[1].out = "ok"
          /\ \E i \in RowsOf(xop[1].athlete) :
                /\ records[i].access_token = Some(xop[1].access_token)
                /\ records[i].refresh_token = Some(xop[1].refresh_token)

\* C27: an exchange for an athlete that has no record completes without
\* raising and leaves exactly one record of that athlete, holding the
\* response's access_token and refresh_token.
C27_ExchangeCreatesRecord ==
    (xop # None /\ xop[1].op = "exchange" /\ ~xop[1].existed) =>
        /\ xop[1].out = "ok"
        /\ Cardinality(RowsOf(xop[1].athlete)) = 1
        /\ \A i \in RowsOf(xop[1].athlete) :
              /\ records[i].access_token = Some(xop[1].access_token)
              /\ records[i].refresh_token = Some(xop[1].refresh_token)

\* C28: within one wrapped call the token is refreshed at most twice, at most
\* once before the first invocation and at most once after an invocation that
\* raised Unauthenticated, and the wrapped operation is invoked at most twice.
C28_AtMostTwoEach ==
    /\ Cardinality(RefreshAt) <= 2
    /\ Cardinality(InvokeAt) <= 2
    /\ \A k \in RefreshAt :
          \/ k = 1
          \/ events[k - 1] = Invoked("Unauthenticated")

\* A call that refreshed twice and invoked the operation twice.
C28_Witness ==
    /\ wpc \in {"returned", "raised"}
    /\ Cardinality(RefreshAt) = 2
    /\ Cardinality(InvokeAt) = 2
    /\ events[1].e = "refresh"

\* The latest event of the call is a refresh that failed.
RefreshFailed(evs) ==
    /\ evs # <<>>
    /\ evs[Len(evs)].e = "refresh"
    /\ evs[Len(evs)].out # "ok"

\* C29: when the token request of a refresh raises, the call ends by raising
\* that error, the wrapped operation is not invoked after the failed refresh,
\* and the session's stored access_token, refresh_token and expires_at are
\* what they were before the refresh.
C29_FailedRefreshPropagates ==
    /\ [](\A k \in RefreshAt :
            events[k].out # "ok" =>
                /\ k = Len(events)
                /\ wpc = "raised"
                /\ outcome = Raised(events[k].out))
    /\ [][(Len(events') = Len(events) + 1 /\ RefreshFailed(events')) =>
            /\ auth' = auth
            /\ db' = db]_vars

\* A refresh after Unauthenticated failed and ended the call.
C29_Witness ==
    /\ wpc = "raised"
    /\ Len(events) = 2
    /\ events[1] = Invoked("Unauthenticated")
    /\ RefreshFailed(events)
    /\ variant = "strava_django.manager"

RowsOfUser(u) == {i \in DOMAIN records : records[i].user_id = Some(u)}

\* C33: after any sequence of bind_user calls no user is bound to more than one
\* record; a call for a user that is bound to another record raises
\* ValidationError and leaves every record as it was; a call for the user the
\* record is already bound to succeeds and the record stays bound to it.
C33_OneRecordPerUser ==
    /\ \A u \in UserIds : Cardinality(RowsOfUser(u)) <= 1
    /\ (xop # None /\ xop[1].target # 0 /\ xop[1].user # None) =>
          LET i == xop[1].target
              before == xop[1].before
          IN  /\ (\E j \in DOMAIN before \ {i} : before[j].user_id = xop[1].user) =>
                    /\ xop[1].out = "ValidationError"
                    /\ records = before
              /\ before[i].user_id = xop[1].user =>
                    /\ xop[1].out = "ok"
                    /\ records = before

\* One user was bound, bound again to its record and refused for the other
\* record, and the other record got another user.
C33_Witness ==
    /\ nops = MaxBinds
    /\ xop[1].out = "ValidationError"
    /\ xop[1].user = Some(1)
    /\ xop[1].target = 2
    /\ records[1].user_id = Some(1)
    /\ records[2].user_id = Some(2)

\* ------------------------------------------------ RequestHandler: properties
\* The latest dispatch got a response and went through handle_response.
Handled == dstage \in {"handled", "decoded"}
TypedErrors == {"InvalidRequest", "Unauthenticated", "PremiumAccountRequired",
                "PermissionDenied", "NotFound", "RequestLimitExceeded", "StravaError"}

\* C11: a dispatch whose response has status 400, 401, 402, 403, 404, 429 or
\* 500 raises InvalidRequest, Unauthenticated, PremiumAccountRequired,
\* PermissionDenied, NotFound, RequestLimitExceeded or StravaError, and the
\* error carries the response of that dispatch.
C11_StatusToError ==
    Handled =>
        LET st == response[1].status
            carried(cls) == dres = DRaise(cls, ndispatch) /\ response[1].id = ndispatch
        IN  /\ st = 400 => carried("InvalidRequest")
            /\ st = 401 => carried("Unauthenticated")
            /\ st = 402 => carried("PremiumAccountRequired")
            /\ st = 403 => carried("PermissionDenied")
            /\ st = 404 => carried("NotFound")
            /\ st = 429 => carried("RequestLimitExceeded")
            /\ st = 500 => carried("StravaError")

C11_Witness ==
    /\ Handled
    /\ ndispatch = 2
    /\ response[1].status = 402
    /\ dres = DRaise("PremiumAccountRequired", 2)

\* C12: a dispatch whose response has a success status and a body that does
\* not decode as JSON returns (a null result) and does not raise.
C12_UndecodableReturnsNull ==
    (Handled /\ response[1].status \in 200..299 /\ response[1].body = None) =>
        dres[1].kind = "return"

\* C19 as stated: every status outside 200..299 and outside the mapped set
\* raises StravaError, and a status in 200..299 raises no typed error.
C19_NonSuccessRaises ==
    Handled =>
        LET st == response[1].status
        IN  /\ (st \notin 200..299 /\ st \notin {400, 401, 402, 403, 404, 429}) =>
                  dres = DRaise("StravaError", ndispatch)
            /\ st \in 200..299 => dres[1].cls \notin TypedErrors

\* C19 as amended: every status in 400..599 outside the mapped set raises
\* StravaError carrying the response; a status below 400 (1xx, 2xx, 3xx)
\* raises no typed error.
C19_ErrorStatusRaises ==
    Handled =>
        LET st == response[1].status
        IN  /\ (st \in 400..599 /\ st \notin {400, 401, 402, 403, 404, 429}) =>
                  dres = DRaise("StravaError", ndispatch)
            /\ st < 400 => dres[1].cls \notin TypedErrors

C19_Witness ==
    /\ Handled
    /\ response[1].status = 418
    /\ dres = DRaise("StravaError", ndispatch)

C21_HookErrorPropagates ==
    [][(ndispatch' # ndispatch /\ dstage' \in {"before", "after"}) =>
          LET nb == Len(before_subs)
              at == dres'[1].at
              called(i) == [k |-> "before", h |-> before_subs[i],
                            arg |-> <<"context", ndispatch'>>]
          IN  /\ dres'[1].kind = "raise"
              /\ dres'[1].cls = "HookError"
              /\ at >= 1
              /\ UNCHANGED <<last_response, rates>>
              /\ dstage' = "before" =>
                    /\ at <= nb
                    /\ Len(trace') = at
                    /\ \A i \in 1..at : trace'[i] = called(i)
                    /\ response' = response
              /\ dstage' = "after" =>
                    /\ at <= Len(after_subs)
                    /\ Len(trace') = nb + 1 + at
                    /\ \A i \in 1..nb : trace'[i] = called(i)
                    /\ trace'[nb + 1].k = "http"
                    /\ \A j \in 1..at :
                          trace'[nb + 1 + j] = [k |-> "after", h |-> after_subs[j],
                                                arg |-> <<"response", ndispatch'>>]]_vars

C21_Witness ==
    /\ dstage = "before"
    /\ Len(before_subs) = 2
    /\ dres = HookRaise(1)
    /\ Len(trace) = 1
    /\ response = None

\* A rate-limit header that is missing or is not two integers.
BadHeader(h) == h = None \/ Len(h) # 2 \/ \E i \in 1..Len(h) : h[i] = None

\* C22: a response whose X-RateLimit-Limit or X-RateLimit-Usage header is
\* missing or malformed makes the dispatch raise nothing but what its status
\* and body call for, and after it exceeded_fifteen_minutes_budget and
\* exceeded_daily_budget are None, whatever the responses before it recorded.
C22_BadRateHeaderIsUnknown ==
    (Handled /\ (BadHeader(response[1].limit) \/ BadHeader(response[1].usage))) =>
        /\ dres[1].cls \in TypedErrors \cup {"", "JSONDecodeError"}
        /\ dres[1].kind = "raise" =>
              (response[1].status >= 400 \/ response[1].body = None)
        /\ exceeded_fifteen_minutes_budget(rates) = [raises |-> FALSE, value |-> None]
        /\ exceeded_daily_budget(rates) = [raises |-> FALSE, value |-> None]

C22_Witness ==
    /\ Handled
    /\ ndispatch = 2
    /\ response[1].limit = <<None, Some(2)>>
    /\ response[1].usage = <<Some(1), Some(3)>>
    /\ rates.daily_rate = None
    /\ rates.daily_rate_usage = Some(3)
    /\ exceeded_daily_budget(rates).value = None

\* The status of an error response: 4xx and 5xx.
ErrorStatus(st) == 400 <= st /\ st < 600

\* C31: a dispatch that gets a response with an error status, with no hook
\* raising, has called every after_request hook with that response, has set
\* the rate-limit counters from the headers of that response, raises the
\* typed error of the status and leaves last_response as it was; and
\* last_response changes in no step but a dispatch whose response has no error
\* status.
C31_ErrorKeepsLastResponse ==
    [][/\ (/\ ndispatch' # ndispatch
            /\ response' # None
            /\ response'[1].id = ndispatch'
            /\ ErrorStatus(response'[1].status)
            /\ dres'[1].cls # "HookError") =>
              LET na == Len(after_subs)
              IN  /\ Len(trace') = Len(before_subs) + 1 + na
                  /\ \A j \in 1..na :
                        trace'[Len(before_subs) + 1 + j] =
                            [k |-> "after", h |-> after_subs[j],
                             arg |-> <<"response", ndispatch'>>]
                  /\ rates' = get_strava_limits(response'[1])
                  /\ dres' = DRaise(exp_cls(response'[1].status), ndispatch')
                  /\ last_response' = last_response
       /\ last_response' # last_response =>
              /\ ndispatch' # ndispatch
              /\ response'[1].id = ndispatch'
              /\ ~ErrorStatus(response'[1].status)
              /\ last_response' = [set |-> TRUE, val |-> Some(ndispatch')]]_vars

\* After a first dispatch that succeeded without rate-limit headers, a second
\* one got an error response with them: the after hook ran, the counters are
\* those of the second response and last_response is the first.
C31_Witness ==
    /\ ndispatch = 2
    /\ dstage = "handled"
    /\ response[1].status = 404
    /\ response[1].limit # None
    /\ Len(after_subs) = 1
    /\ trace[Len(trace)].k = "after"
    /\ rates.daily_rate = Some(2)
    /\ rates.daily_rate_usage = Some(3)
    /\ last_response = [set |-> TRUE, val |-> Some(1)]
    /\ dres = DRaise("NotFound", 2)

\* C32: on a client that has dispatched nothing yet last_response is None, and
\* exceeded_fifteen_minutes_budget and exceeded_daily_budget return None
\* without raising.
C32_FreshClientUnknown ==
    ndispatch = 0 =>
        /\ last_response = [set |-> TRUE, val |-> None]
        /\ exceeded_fifteen_minutes_budget(rates) = [raises |-> FALSE, value |-> None]
        /\ exceeded_daily_budget(rates) = [raises |-> FALSE, value |-> None]

\* -------------------------------------------- authorization_url: properties
RECURSIVE CommaJoined(_)
\* The values of a non-empty list, separated by commas.
CommaJoined(sc) ==
    IF Len(sc) = 1 THEN sc[1]
    ELSE CommaJoined(SubSeq(sc, 1, Len(sc) - 1)) \o "," \o sc[Len(sc)]
\* The arguments other than scope are valid.
OthersValid ==
    /\ call_in.approval_prompt \in {None, Some("auto"), Some("force")}
    /\ call_in.state # None => call_in.state[1].isstr
ScopeGiven == call_in.scope # None
OutsideVocabulary ==
    {call_in.scope[1][i] : i \in DOMAIN call_in.scope[1]}
        \ {"read", "read_all", "profile:read_all", "profile:write",
            "activity:read", "activity:read_all", "activity:write"}

\* C23 as stated: a scope with a value outside the vocabulary fails validation
\* and no request is sent; a scope of vocabulary values only succeeds (the
\* other arguments being valid) and the scope parameter of the URL is the
\* comma-joined scope.
C23_ScopeValidated ==
    (call_out # None /\ ScopeGiven) =>
        /\ ndispatch = 0 /\ response = None
        /\ OutsideVocabulary # {} => call_out[1].kind = "raise"
        /\ (OutsideVocabulary = {} /\ OthersValid) =>
              /\ call_out[1].kind = "return"
              /\ call_out[1].value[1].query["scope"] =
                    (IF call_in.scope[1] = <<>> THEN "" ELSE CommaJoined(call_in.scope[1]))

\* C23 as amended: a scope with a value outside the vocabulary fails
\* validation and no request is sent; a non-empty scope of vocabulary values
\* succeeds (the other arguments being valid) with the comma-joined scope as
\* the scope parameter; an empty or absent scope succeeds with the default
\* scope read,activity:read_all.
C23_ScopeValidatedOrDefault ==
    call_out # None =>
        /\ ndispatch = 0 /\ response = None
        /\ (ScopeGiven /\ OutsideVocabulary # {}) =>
              call_out[1] = [kind |-> "raise", cls |-> "AssertionError", value |-> None]
        /\ (ScopeGiven /\ OutsideVocabulary = {} /\ call_in.scope[1] # <<>> /\ OthersValid) =>
              /\ call_out[1].kind = "return"
              /\ call_out[1].value[1].query["scope"] = CommaJoined(call_in.scope[1])
        /\ ((~ScopeGiven \/ call_in.scope[1] = <<>>) /\ OthersValid) =>
              /\ call_out[1].kind = "return"
              /\ call_out[1].value[1].query["scope"] = "read,activity:read_all"

C23_Witness ==
    /\ call_out # None
    /\ call_in.scope = Some(<<"activity:write", "profile:read_all">>)
    /\ call_out[1].kind = "return"
    /\ call_out[1].value[1].query["scope"] = "activity:write,profile:read_all"

\* -------------------------------- validate_webhook_subscription: properties
\* The secret a callback must present: the setting of the manager, the
\* default verify token for the client.
ConfiguredSecret == IF call_in.via = "client" THEN "STRAVA" ELSE call_in.secret

\* C24: validation returns {"hub.challenge": hub_challenge} exactly when
\* hub_mode is "subscribe" and verify_token is the configured secret, and
\* raises in every other case.
C24_ChallengeIffValid ==
    call_out # None =>
        LET valid == /\ call_in.hub_mode = "subscribe"
                     /\ call_in.verify_token = Some(ConfiguredSecret)
        IN  IF valid
            THEN /\ call_out[1].kind = "return"
                 /\ call_out[1].value = Some("hub.challenge" :> call_in.hub_challenge)
            ELSE /\ call_out[1].kind = "raise"
                 /\ call_out[1].value = None

\* ------------------------------------------- concurrent refreshes: properties
\* C25: when both callers found the session expired and both refreshed, the
\* access_token and expires_at saved once both are done are the pair of one
\* of the two refresh responses, never the token of one with the expiry of
\* the other.
C25_NoMixedRefresh ==
    (\A c \in Callers : rpc[c] = "done" /\ rresp[c] # None) =>
        \E c \in Callers :
            /\ rdb.access_token = rresp[c][1].access_token
            /\ rdb.expires_at = Some([secs |-> rresp[c][1].expires_at, off |-> 0])

====
